---- MODULE Spec2Model ----
(***************************************************************************)
(* A model of the PDF outline extractor: src/src/core.py                   *)
(* (PDFOutlineExtractor), src/src/utils.py (is_bold, SETTINGS) and the     *)
(* two callers of extract_outline: src/main.py (process_directory, which   *)
(* builds a new extractor for every file) and src/tests/test_extractor.py  *)
(* (one module-scoped extractor used for every file).                      *)
(*                                                                         *)
(* Units.  A span's size is the double nearest to a number of hundredths   *)
(* of a point, written as that number; round(size, 1) is the double        *)
(* nearest to a number of tenths, written as that number.  Round1 and the  *)
(* Float... comparisons work on these integers and give what the doubles   *)
(* give.  Bounding boxes are in whole points.  Text is a TLA+ string, read *)
(* character by character.  A TLA+ string holds the characters of ASCII    *)
(* only; the one other character core.py names, the typographic apostrophe *)
(* U+2019 of its literal phrases, is written as the control character SUB  *)
(* (0x1A), which stands for nothing else: no text here holds a SUB of its  *)
(* own.  Python treats the two alike everywhere the extractor looks at a   *)
(* character (neither is white space, a digit or a cased letter), except   *)
(* that only U+2019 equals the apostrophe of the literals.  Python's None  *)
(* is "" for a text and <<>> for a bounding box.                           *)
(***************************************************************************)
EXTENDS Integers, Sequences, FiniteSets, TLC

\* ------------------------------------------------------------------ bounds
\* The longest document, in pages.
MaxPages == 2
\* The largest configured max_headings_per_page.
MaxCap == 2
\* The largest number of PDF files in the input directory.
MaxFiles == 2

\* ----------------------------------------------------------- configuration
\* SETTINGS['heading_detection_thresholds'] of config/settings.json, read at
\* the places named in MODEL_MAP.json.  Sizes in tenths of a point.
font_size_difference_from_dominant == 20
\* bold_font_size_min_ratio_to_dominant, as a fraction (9/10 = 0.9).
bold_ratio_num == 9
bold_ratio_den == 10
max_words_for_bold_heading == 3
max_words_for_all_caps_heading == 4
common_heading_keywords == <<"Overview">>
\* The configured noise patterns are literal here: re.search(p, t, IGNORECASE)
\* of a pattern without metacharacters is a case-insensitive substring test.
common_footer_header_patterns == <<"page ", "confidential">>
\* The default of SETTINGS.get('max_headings_per_page', 4).
DefaultMaxHeadings == 4

\* ------------------------------------------------------------------ strings
Ch(s, i) == SubSeq(s, i, i)

Min(a, b) == IF a <= b THEN a ELSE b

UpperChars == "ABCDEFGHIJKLMNOPQRSTUVWXYZ"
LowerChars == "abcdefghijklmnopqrstuvwxyz"

\* str.isspace() of one character, and the class \s: the white space of
\* ASCII, which is \t \n VT \f \r FS GS RS US and the space (0x09-0x0D,
\* 0x1C-0x1F, 0x20).
IsSpace(c) == c \in {" ", "\t", "\n", "\r", "\f", "", "", "", "", ""}
IsDigit(c) == c \in {"0", "1", "2", "3", "4", "5", "6", "7", "8", "9"}
UpperSet == {Ch(UpperChars, i) : i \in 1..26}
LowerSet == {Ch(LowerChars, i) : i \in 1..26}
ToLower == [c \in UpperSet |-> Ch(LowerChars, CHOOSE i \in 1..26 : Ch(UpperChars, i) = c)]

IsUpperChar(c) == c \in UpperSet
IsLowerChar(c) == c \in LowerSet

LowerChar(c) == IF IsUpperChar(c) THEN ToLower[c] ELSE c

RECURSIVE Lower(_)
Lower(s) == IF s = "" THEN "" ELSE LowerChar(Ch(s, 1)) \o Lower(SubSeq(s, 2, Len(s)))

\* str.isupper(): at least one cased character and no lowercase one.
IsUpper(s) ==
    /\ \E i \in 1..Len(s) : IsUpperChar(Ch(s, i))
    /\ \A i \in 1..Len(s) : ~IsLowerChar(Ch(s, i))

RECURSIVE LStrip(_)
LStrip(s) == IF s # "" /\ IsSpace(Ch(s, 1)) THEN LStrip(SubSeq(s, 2, Len(s))) ELSE s

RECURSIVE RStrip(_)
RStrip(s) ==
    IF s # "" /\ IsSpace(Ch(s, Len(s))) THEN RStrip(SubSeq(s, 1, Len(s) - 1)) ELSE s

\* str.strip()
Strip(s) == RStrip(LStrip(s))

StartsWith(s, p) == Len(p) <= Len(s) /\ SubSeq(s, 1, Len(p)) = p
EndsWith(s, p) == Len(p) <= Len(s) /\ SubSeq(s, Len(s) - Len(p) + 1, Len(s)) = p
\* `sub in s`
Contains(s, sub) ==
    \E i \in 1..(Len(s) - Len(sub) + 1) : SubSeq(s, i, i + Len(sub) - 1) = sub

\* len(s.split()): the number of maximal runs of non-whitespace characters.
WordCount(s) ==
    Cardinality({i \in 1..Len(s) :
        /\ ~IsSpace(Ch(s, i))
        /\ (i = 1 \/ IsSpace(Ch(s, i - 1)))})

\* s.split(' ')[0]: everything before the first space character.
FirstToken(s) ==
    IF \E i \in 1..Len(s) : Ch(s, i) = " "
    THEN SubSeq(s, 1, (CHOOSE i \in 1..Len(s) :
                 Ch(s, i) = " " /\ \A j \in 1..(i - 1) : Ch(s, j) # " ") - 1)
    ELSE s

\* len([p for p in tok.split('.') if p]): the maximal runs of non-dot characters.
NonEmptyDotParts(tok) ==
    Cardinality({i \in 1..Len(tok) :
        /\ Ch(tok, i) # "."
        /\ (i = 1 \/ Ch(tok, i - 1) = ".")})

\* The index after the longest run of digits that starts at i.
RECURSIVE DigitsEnd(_, _)
DigitsEnd(s, i) == IF i <= Len(s) /\ IsDigit(Ch(s, i)) THEN DigitsEnd(s, i + 1) ELSE i

\* re.fullmatch(r'\d+', s)
AllDigits(s) == s # "" /\ DigitsEnd(s, 1) = Len(s) + 1

\* After a digit group that ends before j: (\.\d+)*\s+
RECURSIVE NumberedTail(_, _)
NumberedTail(s, j) ==
    IF j > Len(s) THEN FALSE
    ELSE IF IsSpace(Ch(s, j)) THEN TRUE
    ELSE IF Ch(s, j) = "." /\ DigitsEnd(s, j + 1) > j + 1
         THEN NumberedTail(s, DigitsEnd(s, j + 1))
         ELSE FALSE

\* re.match(r"^\d+(\.\d+)*\s+[\S\s]*", s)
MatchNumbered(s) == DigitsEnd(s, 1) > 1 /\ NumberedTail(s, DigitsEnd(s, 1))

\* re.match(r"^\d+\.\s+[\S\s]*", s)
MatchNumberDot(s) ==
    LET j == DigitsEnd(s, 1) IN
    /\ j > 1
    /\ j + 1 <= Len(s)
    /\ Ch(s, j) = "."
    /\ IsSpace(Ch(s, j + 1))

\* re.match(r"^Appendix [A-Z]:\s+.*", s)
MatchAppendix(s) ==
    /\ StartsWith(s, "Appendix ")
    /\ Len(s) >= 12
    /\ IsUpperChar(Ch(s, 10))
    /\ Ch(s, 11) = ":"
    /\ IsSpace(Ch(s, 12))

\* any(re.search(p, s, re.IGNORECASE) for p in common_footer_header_patterns)
IsNoise(s) ==
    LET lowered == Lower(s) IN
    \E k \in 1..Len(common_footer_header_patterns) :
        Contains(lowered, Lower(common_footer_header_patterns[k]))

\* s.replace(old, new): every occurrence, left to right, without overlap.
RECURSIVE Replace(_, _, _)
Replace(s, old, new) ==
    IF Len(s) < Len(old) THEN s
    ELSE IF StartsWith(s, old)
         THEN new \o Replace(SubSeq(s, Len(old) + 1, Len(s)), old, new)
         ELSE Ch(s, 1) \o Replace(SubSeq(s, 2, Len(s)), old, new)

\* sep.join(seq)
RECURSIVE Join(_, _)
Join(seq, sep) ==
    IF seq = <<>> THEN ""
    ELSE IF Len(seq) = 1 THEN seq[1]
    ELSE seq[1] \o sep \o Join(Tail(seq), sep)

\* The typographic apostrophe U+2019, written as SUB (0x1A).
RightQuote == ""

\* The two literals of core.py that are spelled with it.
OntarioLiteral == "Ontario" \o RightQuote \o "s Digital Library"
RoadMapLiteral ==
    "A Critical Component for Implementing Ontario" \o RightQuote
        \o "s Road Map to Prosperity Strategy"

\* ------------------------------------------------------------------ inputs
\* What the parser hands over (page.get_text("dict")): a span has a text, a
\* size (hundredths of a point) and a font name; a line has its spans and a
\* bounding box <<x0, y0, x1, y1>>; a page has its lines, block after block,
\* and a height.
Sp(text, size, font) == [text |-> text, size |-> size, font |-> font]
Ln(spans, y0, y1) == [spans |-> spans, bbox |-> <<72, y0, 540, y1>>]
Pg(lines) == [lines |-> lines, height |-> 792]

LnIntro == Ln(<<Sp("1. Intro", 1596, "Helvetica")>>, 100, 116)
LnMethod == Ln(<<Sp("2.1 Method", 1600, "Helvetica")>>, 400, 416)
LnScope == Ln(<<Sp("1.1 Scope", 1400, "Helvetica-Bold")>>, 150, 164)
LnBody == Ln(<<Sp("Body ", 1100, "Helvetica"), Sp("text ", 1100, "Helvetica"),
               Sp("goes here.", 1104, "Helvetica")>>, 200, 211)
LnBlank == Ln(<<Sp("  ", 1100, "Helvetica")>>, 230, 241)
LnFooter == Ln(<<Sp("Page 2", 900, "Helvetica")>>, 750, 759)
LnMixed == Ln(<<Sp("see ", 900, "Helvetica"),
                Sp("Total", 1600, "Arial-Black")>>, 300, 316)
LnNote == Ln(<<Sp("note", 800, "Helvetica")>>, 700, 708)
LnLong == Ln(<<Sp("A very long line set in big type here", 1600, "Helvetica")>>,
             60, 76)
LnKey == Ln(<<Sp("Key results.", 1600, "Helvetica")>>, 40, 56)
LnSummary == Ln(<<Sp("Summary", 1100, "Helvetica-Bold")>>, 500, 511)
LnCaps == Ln(<<Sp("RESULTS", 1100, "Helvetica")>>, 600, 611)
LnPlain == Ln(<<Sp("Plain words", 1100, "Helvetica")>>, 250, 261)
LnTop == Ln(<<Sp("Top words", 1100, "Helvetica")>>, 120, 131)
LnShort == Ln(<<Sp("Intro", 1100, "Helvetica")>>, 90, 101)
LnTiny == Ln(<<Sp("3.2 Tiny", 800, "Helvetica-Bold")>>, 400, 408)
LnOther == Ln(<<Sp("Other words", 1100, "Helvetica")>>, 300, 311)
LnOntario == Ln(<<Sp(OntarioLiteral, 1250, "Helvetica")>>, 300, 312)
LnFaq == Ln(<<Sp("FAQ", 900, "Helvetica")>>, 80, 89)

PgDup == Pg(<<LnScope, LnIntro, LnBody, LnBlank, LnFooter, LnIntro, LnOntario>>)
\* Small type only: a short word in capitals at the footer's size, and a
\* smaller line.  Where the document has nothing else, the footer's size is
\* the dominant one.
PgNote == Pg(<<LnFaq, LnNote, LnFooter>>)
PgMany ==
    Pg(<<LnBody, LnKey, LnLong, LnIntro, LnScope, LnMixed, LnMethod, LnSummary, LnCaps>>)

\* A document names its pages; PageOf is what the parser returns for a name.
\* A blank line right above a plain line, and a line that comes last in
\* reading order but lies near the top.
PgGap == Pg(<<LnIntro, LnBlank, LnPlain, LnTop>>)
\* A page whose largest text has five characters, with a numbered line in
\* small bold type.
PgShort == Pg(<<LnShort, LnFooter, LnTiny>>)

\* Two texts of one length at the page's largest size.
PgTie == Pg(<<LnPlain, LnOther>>)

PagePool == {"dup", "note", "many", "gap", "short", "tie"}
PageOf(name) ==
    IF name = "dup" THEN PgDup
    ELSE IF name = "tie" THEN PgTie
    ELSE IF name = "note" THEN PgNote
    ELSE IF name = "gap" THEN PgGap
    ELSE IF name = "short" THEN PgShort
    ELSE PgMany

\* document.load_page(i) for every i, in order.
LoadPages(d) == [i \in 1..Len(d.pages) |-> PageOf(d.pages[i])]

\* Where the parser raises, if it does: nowhere, in fitz.open, in the first
\* load_page of the style analysis or in the load_page(0) of the title search
\* (a document with a page), or in the load_page of the heading loop for one
\* page.
NoFault == [kind |-> "none", page |-> 0]
Faults(n) ==
    {NoFault, [kind |-> "open", page |-> 0]}
    \cup {[kind |-> k, page |-> 0] : k \in IF n >= 1 THEN {"styles", "title"} ELSE {}}
    \cup {[kind |-> "page", page |-> k] : k \in 0..(n - 1)}

PageSeqs == UNION {[1..n -> PagePool] : n \in 0..MaxPages}

Paths == {"data/file01.pdf", "data/file03.pdf"}

\* The documents: a path, the pages, and the parser's failure.
Docs ==
    {d \in [path : Paths, pages : PageSeqs, fault : Faults(MaxPages)] :
        d.fault \in Faults(Len(d.pages))}

\* The documents a directory of n files may hold: any document when it is the
\* only file, a document of at most one page otherwise.
DirectoryDocs(n) == IF n = 1 THEN Docs ELSE {d \in Docs : Len(d.pages) <= 1}

\* The configurations: max_headings_per_page present (1..MaxCap) or absent.
NoSettings == [k \in {} |-> 0]
SettingsChoices ==
    {NoSettings} \cup {[max_headings_per_page |-> n] : n \in 1..MaxCap}

\* ------------------------------------------------------------------- utils
\* is_bold(span)
is_bold(span) ==
    LET font_name == Lower(span.font) IN
    \/ Contains(font_name, "bold")
    \/ Contains(font_name, "black")
    \/ Contains(font_name, "heavy")

\* ------------------------------------------------- binary floating point
\* 2^k modulo m.
RECURSIVE Pow2Mod(_, _)
Pow2Mod(k, m) == IF k = 0 THEN 1 % m ELSE (2 * Pow2Mod(k - 1, m)) % m

\* The binary exponent of x/den, x > 0: the e with 2^e <= x/den < 2^(e+1).
RECURSIVE Exp2(_, _)
Exp2(x, den) ==
    IF x >= 2 * den THEN 1 + Exp2(x, 2 * den)
    ELSE IF x < den THEN Exp2(2 * x, den) - 1
    ELSE 0

\* round(size, 1) of the double nearest to h hundredths, in tenths.  A size
\* that does not end in 5 hundredths goes to the nearest tenth.  One that
\* does is rounded by where its double lies: the double's 53-bit significand
\* is h * 2^(52-e) / 100 rounded to an integer, and the remainder of
\* h * 2^(50-e) by 25 tells whether that rounding went up (above 12), down
\* (1..12) or was exact (0: the double is the tie itself, and the tie goes
\* to the even tenth).
Round1(h) ==
    LET q == h \div 10
        r == h % 10
        rem == ((h % 25) * Pow2Mod(50 - Exp2(h, 100), 25)) % 25
    IN  IF r < 5 THEN q
        ELSE IF r > 5 THEN q + 1
        ELSE IF rem = 0 THEN (IF q % 2 = 0 THEN q ELSE q + 1)
        ELSE IF rem > 12 THEN q + 1
        ELSE q

\* How far the double nearest to x tenths lies from x/10, in fifths of its
\* unit in the last place 2^(e-52): the significand is x * 2^(52-e) / 10
\* rounded to an integer, and the remainder of x * 2^(51-e) by 5 is the
\* part the rounding dropped (1, 2) or added (3, 4).
FloatFifths(x) ==
    IF x = 0 THEN 0
    ELSE LET r == ((x % 5) * Pow2Mod(51 - Exp2(x, 10), 5)) % 5
         IN  IF r = 0 THEN 0
             ELSE IF r = 1 THEN 0 - 1
             ELSE IF r = 2 THEN 0 - 2
             ELSE IF r = 3 THEN 2
             ELSE 1

\* The same distance in one unit for every x: fifths of 2^(-56).
FloatErr(x) == IF x = 0 THEN 0 ELSE FloatFifths(x) * 2 ^ (Exp2(x, 10) + 4)

\* font_size >= dominant - c for c = 0.5 or 1.0 (5 or 10 tenths).  The
\* difference of the doubles is exact, so away from equality the tenths
\* decide and at equality the two doubles' distances from their tenths do.
FloatGeDiff(f, d, c) ==
    IF f # d - c THEN f > d - c ELSE FloatErr(f) >= FloatErr(d)

\* The sign of font_size - (dominant + c) for c = 0.5, 1.0 or 2.0.  Away
\* from equality the tenths decide.  At equality the sum is exact when it
\* stays in dominant's binade, and rounds to font_size's own double when it
\* leaves it.
FloatCmpSum(f, d, c) ==
    IF f # d + c THEN (IF f > d + c THEN 1 ELSE 0 - 1)
    ELSE IF d = 0 \/ Exp2(f, 10) # Exp2(d, 10) THEN 0
    ELSE IF FloatErr(f) > FloatErr(d) THEN 1
    ELSE IF FloatErr(f) < FloatErr(d) THEN 0 - 1
    ELSE 0

FloatGtSum(f, d, c) == FloatCmpSum(f, d, c) > 0
FloatGeSum(f, d, c) == FloatCmpSum(f, d, c) >= 0

\* font_size >= dominant * 0.9.  Equality of the tenths needs a dominant of
\* whole points, an exact double; its product with the double of 0.9 (which
\* lies above 0.9) rounds to font_size's double unless that double lies two
\* fifths of a unit below its tenth, when it rounds to the next one up.
FloatGeRatio(f, d) ==
    IF f * bold_ratio_den # d * bold_ratio_num
    THEN f * bold_ratio_den > d * bold_ratio_num
    ELSE FloatFifths(f) # 0 - 2

\* ---------------------------------------------------------- style analysis
\* Every span of the document, page after page, line after line.
RECURSIVE LineSpans(_)
LineSpans(lines) ==
    IF lines = <<>> THEN <<>> ELSE lines[1].spans \o LineSpans(Tail(lines))

RECURSIVE DocSpans(_)
DocSpans(pages) ==
    IF pages = <<>> THEN <<>> ELSE LineSpans(pages[1].lines) \o DocSpans(Tail(pages))

\* The keys of a dict filled in the order of seq: each value once, in the
\* order of its first occurrence.
RECURSIVE FirstSeen(_)
FirstSeen(seq) ==
    IF seq = <<>> THEN <<>>
    ELSE LET rest == FirstSeen(SubSeq(seq, 1, Len(seq) - 1))
             x == seq[Len(seq)]
         IN  IF \E i \in 1..Len(rest) : rest[i] = x THEN rest ELSE Append(rest, x)

CountOf(x, seq) == Cardinality({i \in 1..Len(seq) : seq[i] = x})

\* max(keys, key=count): the first key, in dict order, of the largest count.
MaxByCount(keys, seq) ==
    keys[CHOOSE i \in 1..Len(keys) :
        /\ \A j \in 1..Len(keys) : CountOf(keys[j], seq) <= CountOf(keys[i], seq)
        /\ \A j \in 1..(i - 1) : CountOf(keys[j], seq) < CountOf(keys[i], seq)]

\* The sizes above 6 points, in dict order.
FilteredSizes(keys) == SelectSeq(keys, LAMBDA fs : fs > 60)

\* A ladder in ascending order.
RECURSIVE SortedBySizeAsc(_, _)
SortedBySizeAsc(S, boldSizes) ==
    IF S = {} THEN <<>>
    ELSE LET m == CHOOSE a \in S : \A b \in S : a <= b
         IN  <<m>> \o SortedBySizeAsc(S \ {m}, boldSizes)

\* sorted(set, key=(fs, bold count), reverse=True)
RECURSIVE SortedBySizeDesc(_, _)
SortedBySizeDesc(S, boldSizes) ==
    IF S = {} THEN <<>>
    ELSE LET m == CHOOSE a \in S : \A b \in S :
                     \/ a > b
                     \/ (a = b /\ CountOf(a, boldSizes) >= CountOf(b, boldSizes))
         IN  <<m>> \o SortedBySizeDesc(S \ {m}, boldSizes)

\* _analyze_document_styles: the instance's <<dominant_font_size,
\* font_sizes_by_prominence>> after the call, from what they were before.
AnalyzeStyles(pages, dominant, ladder) ==
    LET spans == DocSpans(pages)
        sizes == [i \in 1..Len(spans) |-> Round1(spans[i].size)]
        bolds == SelectSeq(spans, is_bold)
        boldSizes == [i \in 1..Len(bolds) |-> Round1(bolds[i].size)]
        keys == FirstSeen(sizes)
        filtered == FilteredSizes(keys)
    IN  IF keys = <<>> THEN <<dominant, ladder>>
        ELSE <<IF filtered = <<>> THEN MaxByCount(keys, sizes)
                                   ELSE MaxByCount(filtered, sizes),
               SortedBySizeDesc({keys[i] : i \in 1..Len(keys)}, boldSizes)>>

\* --------------------------------------------------------- the classifier
\* A size rule that never fires.
NeverLarger(font_size, dominant) == FALSE

\* Rule 1: the size is above the dominant size by more than the threshold.
Rule1(font_size, dominant) ==
    FloatGtSum(font_size, dominant, font_size_difference_from_dominant)

H2Phrases ==
    {"Summary", "Background", "The Business Plan to be Developed",
     "Approach and Specific Proposal Requirements",
     "Evaluation and Awarding of Contract"}

SubsectionStarts ==
    {"Equitable", "Shared", "Local", "Access", "Guidance", "Training",
     "Provincial", "Technological"}

StartsWithAny(text, starts) == \E p \in starts : StartsWith(text, p)

\* _is_likely_heading(text, span, line_bbox, prev_line_bbox), with the
\* instance's dominant_font_size.
IsLikelyHeading(text, span, line_bbox, prev_line_bbox, dominant) ==
    LET font_size == Round1(span.size)
        bold == is_bold(span)
    IN
    \/ Rule1(font_size, dominant)
    \/ /\ bold
       /\ FloatGeRatio(font_size, dominant)
       /\ (WordCount(text) < max_words_for_bold_heading \/ IsUpper(text))
    \/ /\ MatchNumbered(text)
       /\ (FloatGeDiff(font_size, dominant, 10) \/ bold)
    \/ \E k \in 1..Len(common_heading_keywords) :
          /\ Contains(Lower(text), Lower(common_heading_keywords[k]))
          /\ \/ (bold /\ FloatGeDiff(font_size, dominant, 5))
             \/ FloatGeSum(font_size, dominant, 5)
             \/ (EndsWith(text, ":") /\ FloatGeDiff(font_size, dominant, 10))
    \/ /\ IsUpper(text)
       /\ WordCount(text) < max_words_for_all_caps_heading
       /\ FloatGeDiff(font_size, dominant, 10)
    \/ /\ prev_line_bbox # <<>>
       /\ (line_bbox[2] - prev_line_bbox[4]) * 20 > dominant * 3
       /\ FloatGeDiff(font_size, dominant, 5)
       /\ ~EndsWith(text, ".")
    \/ /\ text \in H2Phrases
       /\ (bold \/ FloatGeSum(font_size, dominant, 5))
    \/ /\ MatchAppendix(text)
       /\ (bold \/ font_size > dominant)
    \/ /\ EndsWith(text, ":")
       /\ bold
       /\ WordCount(text) < 10
       /\ FloatGeDiff(font_size, dominant, 5)
       /\ StartsWithAny(text, SubsectionStarts)
    \/ /\ Contains(text, "?")
       /\ StartsWith(text, "What could the")
       /\ (bold \/ font_size >= dominant)
    \/ /\ StartsWith(text, "For each Ontario")
       /\ EndsWith(text, "mean:")
       /\ (bold \/ FloatGeDiff(font_size, dominant, 10))

\* ------------------------------------------------------- the level assigner
\* The branch taken when the text matches ^\d+\.\s+ .
NumberingLevel(text) ==
    LET num_dots == NonEmptyDotParts(FirstToken(text)) IN
    IF num_dots = 1 THEN "H1"
    ELSE IF num_dots = 2 THEN "H2"
    ELSE IF num_dots = 3 THEN "H3"
    ELSE IF num_dots = 4 THEN "H4"
    ELSE "H_UNKNOWN"

\* The test that guards the numbering branch.
IsNumbered(text) == MatchNumberDot(text)

LevelName(n) == IF n = 1 THEN "H1" ELSE IF n = 2 THEN "H2" ELSE IF n = 3 THEN "H3" ELSE "H4"

\* The prominence ladder's answer: list.index, then min(idx + 1, 4).
LadderLevel(font_size, ladder) ==
    IF \E i \in 1..Len(ladder) : ladder[i] = font_size
    THEN LevelName(Min(CHOOSE i \in 1..Len(ladder) :
                           /\ ladder[i] = font_size
                           /\ \A j \in 1..(i - 1) : ladder[j] # font_size, 4))
    ELSE "H_UNKNOWN"

\* Whether one of the literal rules between the numbering branch and the
\* ladder decides the level.
LiteralRuleDecides(font_size, text, dominant) ==
    \/ text \in H2Phrases
    \/ text = "Milestones"
    \/ MatchAppendix(text)
    \/ (EndsWith(text, ":") /\ StartsWithAny(text, SubsectionStarts))
    \/ (Contains(text, "?") /\ StartsWith(text, "What could the"))
    \/ (StartsWith(text, "For each Ontario") /\ EndsWith(text, "mean:"))
    \/ (Contains(text, OntarioLiteral) /\ FloatGtSum(font_size, dominant, 10))
    \/ (Contains(text, RoadMapLiteral) /\ FloatGtSum(font_size, dominant, 5))

\* _assign_heading_level(font_size, text), with the instance's
\* dominant_font_size and font_sizes_by_prominence.
AssignHeadingLevel(font_size, text, dominant, ladder) ==
    IF IsNumbered(text) THEN NumberingLevel(text)
    ELSE IF text \in H2Phrases THEN "H2"
    ELSE IF text = "Milestones" THEN "H3"
    ELSE IF MatchAppendix(text) THEN "H2"
    ELSE IF EndsWith(text, ":") /\ StartsWithAny(text, SubsectionStarts) THEN "H3"
    ELSE IF Contains(text, "?") /\ StartsWith(text, "What could the") THEN "H3"
    ELSE IF StartsWith(text, "For each Ontario") /\ EndsWith(text, "mean:") THEN "H4"
    ELSE IF Contains(text, OntarioLiteral) /\ FloatGtSum(font_size, dominant, 10)
         THEN "H1"
    ELSE IF Contains(text, RoadMapLiteral) /\ FloatGtSum(font_size, dominant, 5)
         THEN "H1"
    ELSE LadderLevel(font_size, ladder)

level_order(level) ==
    IF level = "H1" THEN 1
    ELSE IF level = "H2" THEN 2
    ELSE IF level = "H3" THEN 3
    ELSE IF level = "H4" THEN 4
    ELSE IF level = "H_UNKNOWN" THEN 5
    ELSE 99

\* ------------------------------------------------------------ the title
\* "".join(span['text'] for span in line['spans']).strip()
RECURSIVE SpanTexts(_)
SpanTexts(spans) ==
    IF spans = <<>> THEN "" ELSE spans[1].text \o SpanTexts(Tail(spans))

LineText(line) == Strip(SpanTexts(line.spans))

RfpPhrase == "RFP: Request for Proposal"
ToPresentPhrase ==
    "To Present a Proposal for Developing the Business Plan for the Ontario Digital Library"

InTopHalf(line, page) == line.bbox[2] * 2 < page.height

\* The last line of the page, in reading order, that holds the phrase in the
\* page's upper half ("" when none does); the second phrase is only looked
\* for in a line that does not hold the first.
RECURSIVE LastRfpLine(_, _)
LastRfpLine(lines, page) ==
    IF lines = <<>> THEN ""
    ELSE LET last == lines[Len(lines)] IN
         IF Contains(LineText(last), RfpPhrase) /\ InTopHalf(last, page)
         THEN LineText(last)
         ELSE LastRfpLine(SubSeq(lines, 1, Len(lines) - 1), page)

RECURSIVE LastToPresentLine(_, _)
LastToPresentLine(lines, page) ==
    IF lines = <<>> THEN ""
    ELSE LET last == lines[Len(lines)] IN
         IF /\ ~(Contains(LineText(last), RfpPhrase) /\ InTopHalf(last, page))
            /\ Contains(LineText(last), ToPresentPhrase)
            /\ InTopHalf(last, page)
         THEN LineText(last)
         ELSE LastToPresentLine(SubSeq(lines, 1, Len(lines) - 1), page)

\* The primary strategy: both fragments found, joined and repaired.
PrimaryTitle(page) ==
    LET rfp_line == LastRfpLine(page.lines, page)
        to_present_line == LastToPresentLine(page.lines, page)
    IN  IF rfp_line # "" /\ to_present_line # ""
        THEN Replace(
                 Replace(Strip(Replace(rfp_line \o " " \o to_present_line, "\n", " ")),
                         "Reeeequest f quest foooor Pr r Proposal quest f oposal",
                         "Request for Proposal"),
                 "Pr r", "Pr")
        ELSE ""

\* The stripped texts of the spans at the largest rounded size of the page, in
\* reading order: a larger size restarts the list, an equal one extends it.
RECURSIVE TitleCandidates(_, _, _)
TitleCandidates(spans, max_title_font_size, title_candidates) ==
    IF spans = <<>> THEN title_candidates
    ELSE LET text == Strip(spans[1].text)
             font_size == Round1(spans[1].size)
         IN  IF font_size > max_title_font_size
             THEN TitleCandidates(Tail(spans), font_size, <<text>>)
             ELSE IF font_size = max_title_font_size
             THEN TitleCandidates(Tail(spans), max_title_font_size,
                                  Append(title_candidates, text))
             ELSE TitleCandidates(Tail(spans), max_title_font_size, title_candidates)

\* sorted(list(set(c)), key=len, reverse=True): every order the call can
\* return.  The sort is stable and the order in which a set of strings is
\* iterated depends on the interpreter's hash seed, so equally long members
\* come in any order.
RECURSIVE LongestFirst(_)
LongestFirst(S) ==
    IF S = {} THEN {<<>>}
    ELSE UNION {{<<m>> \o rest : rest \in LongestFirst(S \ {m})} :
                   m \in {a \in S : \A b \in S : Len(a) >= Len(b)}}

\* set(title_candidates)
CandidateSet(title_candidates) == {title_candidates[i] : i \in 1..Len(title_candidates)}

\* The title candidates of the first page.
FirstPageCandidates(pages) ==
    IF pages = <<>> THEN <<>> ELSE TitleCandidates(LineSpans(pages[1].lines), 0, <<>>)

\* A test that lets a string of five characters pass.
AcceptedFromFive(potential_title) ==
    Len(potential_title) >= 5 /\ ~IsNoise(potential_title)

\* The test the fallback title must pass.
TitleAccepted(potential_title) == Len(potential_title) > 5 /\ ~IsNoise(potential_title)

\* potential_title: the distinct candidate texts, in the order the sort
\* returned, joined.
PotentialTitle(sorted_candidates) == Strip(Join(sorted_candidates, " "))

\* The fallback strategy, for the order the sort returned.
FallbackTitle(page, sorted_candidates) ==
    LET title_candidates == TitleCandidates(LineSpans(page.lines), 0, <<>>)
        potential_title == PotentialTitle(sorted_candidates)
    IN  IF title_candidates # <<>> /\ TitleAccepted(potential_title)
        THEN potential_title
        ELSE ""

IsBanner(title) ==
    \/ Contains(title, "TOPJUMP")
    \/ Contains(title, "TRAMPOLINE PARK")
    \/ Contains(title, "YOU'RE INVITED")

\* Whether the call sorts a set of title candidates: the primary strategy
\* found nothing and the first page has a span.
SortsCandidates(pages) ==
    /\ pages # <<>>
    /\ PrimaryTitle(pages[1]) = ""
    /\ FirstPageCandidates(pages) # <<>>

\* The title extract_outline settles on before it walks the pages, for the
\* order the sort returned (when it ran).
ResolveTitle(pages, sorted_candidates) ==
    LET found ==
            IF pages = <<>> THEN ""
            ELSE IF PrimaryTitle(pages[1]) # "" THEN PrimaryTitle(pages[1])
            ELSE FallbackTitle(pages[1], sorted_candidates)
    IN  IF found # "" /\ IsBanner(found) THEN "" ELSE found

\* ------------------------------------------------------- the heading loop
\* content_page_offset
ContentPageOffset(pdf_path) == IF EndsWith(pdf_path, "file03.pdf") THEN 0 - 1 ELSE 0

\* output_page_num
OutputPageNum(page_idx, content_page_offset) == page_idx + 1 + content_page_offset

\* A loop that skips no page.
NeverSkipped(output_page_num) == FALSE

\* Whether the loop skips the page.
PageSkipped(output_page_num) == output_page_num < 1

\* Whether a line is left out before the classifier sees it: "empty", "noise",
\* "long", or "" when it is handed on.
PreFilter(line_text) ==
    IF line_text = "" THEN "empty"
    ELSE IF IsNoise(line_text) THEN "noise"
    ELSE IF WordCount(line_text) > max_words_for_bold_heading * 2 THEN "long"
    ELSE ""

\* The filter for physical page 1 of file03.pdf.
File03Skipped(pdf_path, page_idx, line_text) ==
    /\ EndsWith(pdf_path, "file03.pdf")
    /\ page_idx = 1
    /\ line_text # OntarioLiteral
    /\ line_text # RoadMapLiteral
    /\ Contains(line_text, "The Ontario Digital Library will make Ontario a better place")

\* A title test that nothing passes.
NeverTheTitle(text, document_title) == FALSE

\* Whether a text is the resolved title: document_title and text ==
\* document_title, of the line filter and of the fallback search.
IsDocumentTitle(text, document_title) == document_title # "" /\ text = document_title

\* A dedup test that lets every key through.
AlwaysNewHeading(unique_heading_key, processed) == TRUE

\* Whether the dedup set lets a key through.
IsNewHeading(unique_heading_key, processed) == unique_heading_key \notin processed

\* A reference that an empty line leaves as it was.
KeepOnEmpty(line, outcome, prev_line_bbox) ==
    IF outcome = "empty" THEN prev_line_bbox ELSE line.bbox

\* The previous bounding box the next line is compared against.
NextPrevBbox(line, outcome, prev_line_bbox) == line.bbox

\* The rounded sizes of a line's spans.
SpanSizes(line) == {Round1(line.spans[i].size) : i \in 1..Len(line.spans)}

\* One pass of the loop over a line.  st is the loop's state: prev (the
\* previous bounding box), cands (temp_page_candidates), seen
\* (processed_headings) and trace (what happened to each line so far).
ProcessLine(line, st, cx) ==
    LET line_text == LineText(line)
        pre == PreFilter(line_text)
        first_span == line.spans[1]
        likely == IsLikelyHeading(line_text, first_span, line.bbox, st.prev, cx.dominant)
        is_title == IsDocumentTitle(line_text, cx.title) /\ cx.page_idx > 0
        skipped03 == File03Skipped(cx.path, cx.page_idx, line_text)
        assigned_level ==
            AssignHeadingLevel(Round1(first_span.size), line_text, cx.dominant, cx.ladder)
        key == <<line_text, assigned_level, cx.page>>
        outcome ==
            IF pre # "" THEN pre
            ELSE IF line.spans = <<>> THEN "no_spans"
            ELSE IF ~likely THEN "not_heading"
            ELSE IF is_title THEN "title"
            ELSE IF skipped03 THEN "file03"
            ELSE IF IsNewHeading(key, st.seen) THEN "candidate"
            ELSE "duplicate"
        reached_level == outcome \in {"candidate", "duplicate"}
    IN  [prev |-> NextPrevBbox(line, outcome, st.prev),
         cands |-> IF outcome = "candidate"
                   THEN Append(st.cands, [level |-> assigned_level, text |-> line_text,
                                          page |-> cx.page, y_pos |-> line.bbox[2]])
                   ELSE st.cands,
         seen |-> IF outcome = "candidate" THEN st.seen \cup {key} ELSE st.seen,
         trace |-> Append(st.trace,
                     [text |-> line_text,
                      page_idx |-> cx.page_idx,
                      sizes |-> SpanSizes(line),
                      first_size |-> IF line.spans = <<>> THEN 0
                                     ELSE Round1(first_span.size),
                      bbox |-> line.bbox,
                      prev |-> st.prev,
                      classified |-> pre = "" /\ line.spans # <<>> /\ likely,
                      outcome |-> outcome,
                      level |-> IF reached_level THEN assigned_level ELSE ""])]

RECURSIVE ProcessLines(_, _, _)
ProcessLines(lines, st, cx) ==
    IF lines = <<>> THEN st
    ELSE ProcessLines(Tail(lines), ProcessLine(lines[1], st, cx), cx)

\* ------------------------------------------------------------ the curator
\* The sort key of a candidate, and its order.
KeyLeq(a, b) ==
    \/ level_order(a.level) < level_order(b.level)
    \/ (level_order(a.level) = level_order(b.level) /\ a.y_pos <= b.y_pos)

\* sorted(..., key=...): stable insertion of x after every element not above it.
RECURSIVE InsertSorted(_, _)
InsertSorted(sorted, x) ==
    IF sorted = <<>> THEN <<x>>
    ELSE IF KeyLeq(sorted[1], x) THEN <<sorted[1]>> \o InsertSorted(Tail(sorted), x)
    ELSE <<x>> \o sorted

RECURSIVE SortCandidates(_)
SortCandidates(cands) ==
    IF cands = <<>> THEN <<>>
    ELSE InsertSorted(SortCandidates(SubSeq(cands, 1, Len(cands) - 1)), cands[Len(cands)])

\* SETTINGS.get('max_headings_per_page', 4)
MaxHeadingsOrDefault(settings) ==
    IF "max_headings_per_page" \in DOMAIN settings
    THEN settings.max_headings_per_page
    ELSE DefaultMaxHeadings

\* Whether the page's candidates are more than the cap.
OverCap(sorted, settings) == Len(sorted) > MaxHeadingsOrDefault(settings)

\* Whether cutting the list raises: SETTINGS['max_headings_per_page'] of a
\* configuration without the key.
CutRaises(sorted, settings) ==
    OverCap(sorted, settings) /\ "max_headings_per_page" \notin DOMAIN settings

\* A cut that keeps the whole list.
KeepAll(sorted, settings) == sorted

\* sorted_potential_headings[:SETTINGS['max_headings_per_page']]: the first n
\* elements, or all but the last -n for a negative n.
CutToCap(sorted, settings) ==
    LET n == settings.max_headings_per_page IN
    IF n >= 0 THEN SubSeq(sorted, 1, Min(Len(sorted), n))
    ELSE SubSeq(sorted, 1, Len(sorted) + n)

\* Whether a span qualifies for the fallback.
IsProminentSpan(span, document_title, dominant) ==
    LET text == Strip(span.text)
        font_size == Round1(span.size)
    IN  /\ text # ""
        /\ ~IsNoise(text)
        /\ ~IsDocumentTitle(text, document_title)
        /\ (FloatGeDiff(font_size, dominant, 5) \/ is_bold(span))
        /\ (WordCount(text) > 1 \/ (Len(text) > 3 /\ ~AllDigits(text)))

\* prominent_candidates: the qualifying spans, in reading order, each with its
\* line's vertical position.
RECURSIVE ProminentCandidates(_, _, _)
ProminentCandidates(lines, document_title, dominant) ==
    IF lines = <<>> THEN <<>>
    ELSE LET line == lines[1]
             good == SelectSeq(line.spans,
                         LAMBDA sp : IsProminentSpan(sp, document_title, dominant))
         IN  [i \in 1..Len(good) |->
                 [text |-> Strip(good[i].text), y_pos |-> line.bbox[2]]]
             \o ProminentCandidates(Tail(lines), document_title, dominant)

\* A fallback search that takes the first qualifying span in reading order.
FirstInReadingOrder(page, document_title, dominant) ==
    LET pc == ProminentCandidates(page.lines, document_title, dominant) IN
    IF pc = <<>> THEN <<>> ELSE <<pc[1]>>

\* A fallback search that finds nothing.
FindNothing(page, document_title, dominant) == <<>>

\* _find_first_prominent_text(page, document_title): the first, in reading
\* order, of the topmost qualifying spans, as a candidate; <<>> when none.
FindFirstProminent(page, document_title, dominant) ==
    LET pc == ProminentCandidates(page.lines, document_title, dominant) IN
    IF pc = <<>> THEN <<>>
    ELSE <<pc[CHOOSE i \in 1..Len(pc) :
              /\ \A j \in 1..Len(pc) : pc[i].y_pos <= pc[j].y_pos
              /\ \A j \in 1..(i - 1) : pc[j].y_pos > pc[i].y_pos]>>

\* headings_to_add_this_page, each with the y_pos it was found at.
HeadingsToAdd(page, cands, settings, title, dominant, output_page_num) ==
    LET sorted == SortCandidates(cands) IN
    IF OverCap(sorted, settings) THEN CutToCap(sorted, settings)
    ELSE IF Len(sorted) > 0 THEN sorted
    ELSE LET first == FindFirstProminent(page, title, dominant) IN
         IF first = <<>> THEN <<>>
         ELSE <<[level |-> "H1", text |-> first[1].text, page |-> output_page_num,
                 y_pos |-> first[1].y_pos]>>

\* An entry as it is appended to the outline: without its y_pos.
Entry(c) == [level |-> c.level, text |-> c.text, page |-> c.page]

\* del heading['y_pos'] on headings_to_add_this_page: the sorted list and its
\* slice hold the same dicts as temp_page_candidates, so the candidates that
\* were kept lose the key there too; the ones cut away keep it.  No two
\* candidates of a call are equal (processed_headings), so the dicts that
\* are shared are the ones that are equal.
WithoutYPos(cands, headings_to_add) ==
    [i \in 1..Len(cands) |->
        IF \E j \in 1..Len(headings_to_add) : headings_to_add[j] = cands[i]
        THEN Entry(cands[i]) ELSE cands[i]]

\* ------------------------------------------------------------- the state
VARIABLES
    SETTINGS,           \* the configuration, loaded once
    pdf_count,          \* len(pdf_files) of process_directory
    file_idx,           \* how many files of the directory are finished
    attempts,           \* per file, the calls of process_single_pdf so far
    returned,           \* per file, what process_single_pdf returned: "" (not
                        \* yet), "ok", or "error" (an outline with an error)
    doc,                \* the document of the current file
    inst,               \* the fields of the two extractors: the tests'
                        \* module-scoped one and process_single_pdf's new one
    self,               \* the extractor that is running
    pc,                 \* where the run is
    extracted_outline,  \* the record extract_outline builds and returns
    content_page_offset,
    page_idx,
    temp_page_candidates,
    origin,             \* per outline entry, the physical page and the
                        \* vertical position it was found at
    trace,              \* per line of the page walked last, what became of it
    got,                \* what the module-scoped extractor returned for doc
    set_order           \* per interpreter (the test run's, which holds the
                        \* module-scoped extractor, and main.py's, which
                        \* holds the new ones), its order of the sets of
                        \* title candidates it has sorted with a choice to
                        \* make: fixed by the candidates and the hash seed
                        \* the interpreter drew when it started

vars ==
    <<SETTINGS, pdf_count, file_idx, attempts, returned, doc, inst, self, pc,
      extracted_outline, content_page_offset, page_idx, temp_page_candidates,
      origin, trace, got, set_order>>

\* PDFOutlineExtractor.__init__
NewExtractor ==
    [dominant_font_size |-> 0,
     font_sizes_by_prominence |-> <<>>,
     processed_headings |-> {}]

\* extracted_outline = {"title": "", "outline": []}
EmptyOutline == [title |-> "", outline |-> <<>>]

NoDoc == [path |-> "", pages |-> <<>>, fault |-> NoFault]

Init ==
    /\ SETTINGS \in SettingsChoices
    /\ pdf_count \in 0..MaxFiles
    /\ file_idx = 0
    /\ attempts = [i \in 1..pdf_count |-> 0]
    /\ returned = [i \in 1..pdf_count |-> ""]
    /\ doc = NoDoc
    /\ inst = [fixture |-> NewExtractor, fresh |-> NewExtractor]
    /\ self = "fixture"
    /\ pc = "idle"
    /\ extracted_outline = EmptyOutline
    /\ content_page_offset = 0
    /\ page_idx = 0
    /\ temp_page_candidates = <<>>
    /\ origin = <<>>
    /\ trace = <<>>
    /\ got = EmptyOutline
    /\ set_order = [fixture |-> {}, fresh |-> {}]

\* ------------------------------------------------------- extract_outline
\* self.processed_headings = set()
ResetProcessed(processed) == {}

\* A handler that catches only the failure of fitz.open.
CaughtOnOpenOnly(kind) == kind = "open"

\* except Exception as e: whether the handler catches the failure.
Caught(kind) == TRUE

\* str(e)
ErrorText(kind) ==
    IF kind = "open" THEN "cannot open broken document"
    ELSE IF kind = "key" THEN "'max_headings_per_page'"
    ELSE "cannot load page"

\* A handler that empties the outline list.
DiscardingWithError(outline, kind) ==
    [title |-> outline.title, outline |-> <<>>, error |-> ErrorText(kind)]

\* The outline as the handler leaves it.
WithError(outline, kind) ==
    [title |-> outline.title, outline |-> outline.outline, error |-> ErrorText(kind)]

\* An outline that already holds the candidates of the page being walked.
WithPageCandidates(outline, cands) ==
    [outline EXCEPT !.outline = @ \o [i \in 1..Len(cands) |-> Entry(cands[i])]]

\* The outline at the moment a page's processing raises: the page's
\* candidates are in temp_page_candidates only, extend has not run.
OutlineAtFailure(outline, cands) == outline

\* A failure of the given kind inside the try block: caught, it ends the call
\* with the error recorded; not caught, it leaves process_directory.
Raise(outline, kind) ==
    IF Caught(kind)
    THEN /\ extracted_outline' = WithError(outline, kind)
         /\ pc' = "done"
    ELSE /\ extracted_outline' = outline
         /\ pc' = "crashed"

\* The call starts: the outline is empty, the dedup set is reset, the
\* document is opened.
Open ==
    /\ pc = "call"
    /\ inst' = [inst EXCEPT ![self].processed_headings =
                                ResetProcessed(inst[self].processed_headings)]
    /\ origin' = <<>>
    /\ trace' = <<>>
    /\ temp_page_candidates' = <<>>
    /\ page_idx' = 0
    /\ content_page_offset' = 0
    /\ IF doc.fault.kind = "open"
       THEN Raise(EmptyOutline, "open")
       ELSE /\ extracted_outline' = EmptyOutline
            /\ pc' = "styles"
    /\ UNCHANGED <<SETTINGS, pdf_count, file_idx, attempts, returned, doc, self, got,
                   set_order>>

\* self._analyze_document_styles(document)
AnalyzeDocumentStyles ==
    /\ pc = "styles"
    /\ IF doc.fault.kind = "styles"
       THEN /\ Raise(extracted_outline, "styles")
            /\ inst' = inst
       ELSE LET r == AnalyzeStyles(LoadPages(doc), inst[self].dominant_font_size,
                                   inst[self].font_sizes_by_prominence)
            IN  /\ inst' = [inst EXCEPT ![self].dominant_font_size = r[1],
                                        ![self].font_sizes_by_prominence = r[2]]
                /\ pc' = "title"
                /\ UNCHANGED extracted_outline
    /\ UNCHANGED <<SETTINGS, pdf_count, file_idx, attempts, returned, doc, self,
                   content_page_offset, page_idx, temp_page_candidates, origin,
                   trace, got, set_order>>

\* Within one run of an interpreter the same candidates, put into a set in
\* the same order, are iterated in the same order.  The tests' extractor
\* lives in the interpreter of the test run, process_single_pdf's in the
\* interpreter of main.py: each has a hash seed of its own.
SameOrderAsBefore(title_candidates, sorted_candidates) ==
    \A r \in set_order[self] :
        r.cands = title_candidates => r.order = sorted_candidates

\* The orders seen so far; only an order that was one of several is kept.
Remember(title_candidates, sorted_candidates) ==
    IF Cardinality(LongestFirst(CandidateSet(title_candidates))) > 1
    THEN [set_order EXCEPT ![self] =
             @ \cup {[cands |-> title_candidates, order |-> sorted_candidates]}]
    ELSE set_order

\* The title, the page offset, and the start of the loop over the pages.
ResolveTitleStep ==
    /\ pc = "title"
    /\ IF doc.fault.kind = "title"
       THEN /\ Raise(extracted_outline, "title")
            /\ UNCHANGED content_page_offset
            /\ UNCHANGED set_order
       ELSE /\ IF SortsCandidates(LoadPages(doc))
               THEN LET title_candidates == FirstPageCandidates(LoadPages(doc)) IN
                    \E sorted_candidates \in LongestFirst(CandidateSet(title_candidates)) :
                        /\ SameOrderAsBefore(title_candidates, sorted_candidates)
                        /\ set_order' = Remember(title_candidates, sorted_candidates)
                        /\ extracted_outline' =
                              [extracted_outline EXCEPT !.title =
                                  ResolveTitle(LoadPages(doc), sorted_candidates)]
               ELSE /\ extracted_outline' =
                          [extracted_outline EXCEPT !.title =
                              ResolveTitle(LoadPages(doc), <<>>)]
                    /\ UNCHANGED set_order
            /\ content_page_offset' = ContentPageOffset(doc.path)
            /\ pc' = IF Len(doc.pages) = 0 THEN "done" ELSE "pages"
    /\ page_idx' = 0
    /\ UNCHANGED <<SETTINGS, pdf_count, file_idx, attempts, returned, doc, inst, self,
                   temp_page_candidates, origin, trace, got>>

AfterPage == IF page_idx + 1 = Len(doc.pages) THEN "done" ELSE "pages"

\* The context of a page's lines.
PageContext(output_page_num) ==
    [title |-> extracted_outline.title,
     path |-> doc.path,
     page_idx |-> page_idx,
     page |-> output_page_num,
     dominant |-> inst[self].dominant_font_size,
     ladder |-> inst[self].font_sizes_by_prominence]

\* One pass of the loop over the pages.
ProcessPage ==
    /\ pc = "pages"
    /\ page_idx < Len(doc.pages)
    /\ LET output_page_num == OutputPageNum(page_idx, content_page_offset)
           page == PageOf(doc.pages[page_idx + 1])
       IN
       IF PageSkipped(output_page_num)
       THEN \* continue
            /\ page_idx' = page_idx + 1
            /\ pc' = AfterPage
            /\ UNCHANGED <<inst, extracted_outline, temp_page_candidates, origin, trace>>
       ELSE IF doc.fault.kind = "page" /\ doc.fault.page = page_idx
       THEN \* load_page raises
            /\ Raise(OutlineAtFailure(extracted_outline, <<>>), "page")
            /\ UNCHANGED <<inst, page_idx, temp_page_candidates, origin, trace>>
       ELSE LET st == ProcessLines(page.lines,
                         [prev |-> <<>>, cands |-> <<>>,
                          seen |-> inst[self].processed_headings, trace |-> <<>>],
                         PageContext(output_page_num))
                sorted == SortCandidates(st.cands)
                add == HeadingsToAdd(page, st.cands, SETTINGS, extracted_outline.title,
                                     inst[self].dominant_font_size, output_page_num)
            IN  /\ inst' = [inst EXCEPT ![self].processed_headings = st.seen]
                /\ trace' = st.trace
                /\ IF CutRaises(sorted, SETTINGS)
                   THEN \* KeyError
                        /\ Raise(OutlineAtFailure(extracted_outline, st.cands), "key")
                        /\ temp_page_candidates' = st.cands
                        /\ UNCHANGED <<page_idx, origin>>
                   ELSE /\ temp_page_candidates' = WithoutYPos(st.cands, add)
                        /\ extracted_outline' =
                              [extracted_outline EXCEPT !.outline =
                                  @ \o [i \in 1..Len(add) |-> Entry(add[i])]]
                        /\ origin' = origin \o
                              [i \in 1..Len(add) |->
                                  [page_idx |-> page_idx, y_pos |-> add[i].y_pos]]
                        /\ page_idx' = page_idx + 1
                        /\ pc' = AfterPage
    /\ UNCHANGED <<SETTINGS, pdf_count, file_idx, attempts, returned, doc, self,
                   content_page_offset, got, set_order>>

\* ------------------------------------------------------------ the callers
\* The test suite calls the module-scoped extractor on the file's document.
FixtureCall ==
    /\ pc = "idle"
    /\ file_idx < pdf_count
    /\ \E d \in DirectoryDocs(pdf_count) : doc' = d
    /\ self' = "fixture"
    /\ pc' = "call"
    /\ UNCHANGED <<SETTINGS, pdf_count, file_idx, attempts, returned, inst, extracted_outline,
                   content_page_offset, page_idx, temp_page_candidates, origin,
                   trace, got, set_order>>

\* process_single_pdf: a new extractor, then extract_outline on it.  What the
\* test's call returned is kept for the comparison; its locals are gone.
ProcessSinglePdf ==
    /\ pc = "done"
    /\ self = "fixture"
    /\ got' = extracted_outline
    /\ attempts' = [attempts EXCEPT ![file_idx + 1] = @ + 1]
    /\ inst' = [inst EXCEPT !.fresh = NewExtractor]
    /\ self' = "fresh"
    /\ pc' = "call"
    /\ extracted_outline' = EmptyOutline
    /\ content_page_offset' = 0
    /\ page_idx' = 0
    /\ temp_page_candidates' = <<>>
    /\ origin' = <<>>
    /\ trace' = <<>>
    /\ UNCHANGED <<SETTINGS, pdf_count, file_idx, returned, doc, set_order>>

\* process_directory has the outline and writes it; a failure of the write is
\* caught and printed.  Either way the loop goes on to the next file.
SaveOutput ==
    /\ pc = "done"
    /\ self = "fresh"
    /\ returned' = [returned EXCEPT ![file_idx + 1] =
                        IF "error" \in DOMAIN extracted_outline THEN "error" ELSE "ok"]
    /\ \E ok \in BOOLEAN : pc' = IF ok THEN "saved" ELSE "save_failed"
    /\ UNCHANGED <<SETTINGS, pdf_count, file_idx, attempts, doc, inst, self,
                   extracted_outline, content_page_offset, page_idx,
                   temp_page_candidates, origin, trace, got, set_order>>

\* The loop of process_directory goes on; what the two calls held is gone.
NextFile ==
    /\ pc \in {"saved", "save_failed"}
    /\ file_idx' = file_idx + 1
    /\ pc' = "idle"
    /\ doc' = NoDoc
    /\ extracted_outline' = EmptyOutline
    /\ got' = EmptyOutline
    /\ content_page_offset' = 0
    /\ page_idx' = 0
    /\ temp_page_candidates' = <<>>
    /\ origin' = <<>>
    /\ trace' = <<>>
    /\ UNCHANGED <<SETTINGS, pdf_count, attempts, returned, inst, self, set_order>>

Next ==
    \/ FixtureCall
    \/ Open
    \/ AnalyzeDocumentStyles
    \/ ResolveTitleStep
    \/ ProcessPage
    \/ ProcessSinglePdf
    \/ SaveOutput
    \/ NextFile

Spec == Init /\ [][Next]_vars

\* ------------------------------------------------------------ properties
HasError == "error" \in DOMAIN extracted_outline

\* The number of outline entries that carry page number p.
EntriesOnPage(p) ==
    Cardinality({i \in 1..Len(extracted_outline.outline) :
                    extracted_outline.outline[i].page = p})

\* The physical pages the loop has finished: skipped, or walked and curated.
FinishedPages ==
    IF pc \in {"pages", "done"} THEN {p \in 0..(page_idx - 1) : p < Len(doc.pages)} ELSE {}

\* C1: the outline extract_outline builds never holds two entries with the
\* same text, level and page, whether the entries came from classified
\* candidates or from the per-page fallback.
C1_DedupInvariant ==
    \A i, j \in 1..Len(extracted_outline.outline) :
        i < j =>
            LET a == extracted_outline.outline[i]
                b == extracted_outline.outline[j]
            IN  <<a.text, a.level, a.page>> # <<b.text, b.level, b.page>>

\* A finished call in which the dedup set turned a repeated line away and the
\* outline has entries.
C1_Witness ==
    /\ pc = "done"
    /\ ~HasError
    /\ extracted_outline.outline # <<>>
    /\ \E k \in 1..Len(trace) : trace[k].outcome = "duplicate"

\* C2: with max_headings_per_page configured (at least 1), the entries that
\* carry one page's number are never more than the configured maximum,
\* however many lines of the page were classified as candidates.
C2_PerPageCap ==
    "max_headings_per_page" \in DOMAIN SETTINGS =>
        \A i \in 1..Len(extracted_outline.outline) :
            EntriesOnPage(extracted_outline.outline[i].page)
                <= SETTINGS.max_headings_per_page

\* A finished call whose last page had more candidates than the configured
\* maximum and contributed exactly the maximum.
C2_Witness ==
    /\ pc = "done"
    /\ ~HasError
    /\ "max_headings_per_page" \in DOMAIN SETTINGS
    /\ Len(temp_page_candidates) > SETTINGS.max_headings_per_page
    /\ EntriesOnPage(temp_page_candidates[1].page) = SETTINGS.max_headings_per_page

\* Whether a page holds a span of non-empty text that matches no noise
\* pattern and is not the title.
HasPlainSpan(page, document_title) ==
    \E k \in 1..Len(page.lines) : \E m \in 1..Len(page.lines[k].spans) :
        LET text == Strip(page.lines[k].spans[m].text) IN
        /\ text # ""
        /\ ~IsNoise(text)
        /\ ~(document_title # "" /\ text = document_title)

\* Whether a page holds a span the fallback search accepts.
HasProminentSpan(page, document_title, dominant) ==
    \E k \in 1..Len(page.lines) : \E m \in 1..Len(page.lines[k].spans) :
        IsProminentSpan(page.lines[k].spans[m], document_title, dominant)

\* C3, as stated: when a call ends without an error, every page with a
\* logical number of at least 1 that holds a span of non-empty, non-noise,
\* non-title text has an entry in the outline.
C3_AsStated ==
    (pc = "done" /\ ~HasError) =>
        \A p \in FinishedPages :
            LET n == OutputPageNum(p, content_page_offset) IN
            (n >= 1 /\ HasPlainSpan(PageOf(doc.pages[p + 1]), extracted_outline.title))
                => EntriesOnPage(n) >= 1

\* Whether line k of physical page p is one the heading loop takes as a
\* candidate: its text is not empty, matches no noise pattern and is not
\* over-long, its first span is classified as a heading (against the line
\* before it on the page), it is not the title on a page after the first,
\* and the filter for file03.pdf does not drop it.
TakenAsCandidate(page, k, p) ==
    LET line == page.lines[k]
        text == LineText(line)
        before == IF k = 1 THEN <<>> ELSE page.lines[k - 1].bbox
    IN  /\ text # ""
        /\ ~IsNoise(text)
        /\ WordCount(text) <= max_words_for_bold_heading * 2
        /\ line.spans # <<>>
        /\ IsLikelyHeading(text, line.spans[1], line.bbox, before,
                           inst[self].dominant_font_size)
        /\ ~(p > 0 /\ extracted_outline.title # "" /\ text = extracted_outline.title)
        /\ ~File03Skipped(doc.path, p, text)

\* Whether a page holds a line the heading loop takes as a candidate.
HasCandidateLine(page, p) ==
    \E k \in 1..Len(page.lines) : TakenAsCandidate(page, k, p)

\* C3, amended: every page with a logical number of at least 1 that the loop
\* has finished and that holds a line the heading loop takes as a candidate,
\* or a span the fallback search accepts (non-empty, no noise, not the
\* title, near the dominant size or bold, and of more than one word or more
\* than three characters that are not all digits), has an entry in the
\* outline.
C3_AtLeastOne ==
    \A p \in FinishedPages :
        LET n == OutputPageNum(p, content_page_offset)
            page == PageOf(doc.pages[p + 1])
        IN  (/\ n >= 1
             /\ \/ HasCandidateLine(page, p)
                \/ HasProminentSpan(page, extracted_outline.title,
                                    inst[self].dominant_font_size))
                => EntriesOnPage(n) >= 1

\* A finished call whose last page had no candidate and got its entry from
\* the fallback search.
C3_Witness ==
    /\ pc = "done"
    /\ ~HasError
    /\ page_idx = Len(doc.pages)
    /\ page_idx >= 1
    /\ trace # <<>>
    /\ temp_page_candidates = <<>>
    /\ EntriesOnPage(OutputPageNum(page_idx - 1, content_page_offset)) = 1

\* Whether a token is a dotted number: digit groups joined by dots, with or
\* without a dot at its end.
RECURSIVE DottedTail(_, _)
DottedTail(tok, j) ==
    IF j > Len(tok) THEN TRUE
    ELSE IF Ch(tok, j) # "." THEN FALSE
    ELSE IF j = Len(tok) THEN TRUE
    ELSE IF DigitsEnd(tok, j + 1) > j + 1 THEN DottedTail(tok, DigitsEnd(tok, j + 1))
    ELSE FALSE

IsDottedNumber(tok) == DigitsEnd(tok, 1) > 1 /\ DottedTail(tok, DigitsEnd(tok, 1))

\* C4, as stated: every line that reached level assignment and whose first
\* token is a dotted number got the level of the token's depth (one group
\* H1, two H2, three H3, four H4, more H_UNKNOWN), whatever its font size
\* and the prominence ladder.
C4_AsStated ==
    \A k \in 1..Len(trace) :
        (trace[k].level # "" /\ IsDottedNumber(FirstToken(trace[k].text)))
            => trace[k].level = NumberingLevel(trace[k].text)

\* The lines of the walked page that were handed to the classifier.
Classifiable(k) == trace[k].outcome \notin {"empty", "noise", "long", "no_spans"}

\* Whether the first span of line k of the walked page is larger than the
\* dominant size by more than the threshold.
FirstSpanLarge(k) ==
    trace[k].first_size >
        inst[self].dominant_font_size + font_size_difference_from_dominant

\* C5, as stated: every line of a walked page that holds a span, at any
\* position, whose rounded size exceeds the dominant size by more than the
\* threshold is in the page's candidate list.
C5_AsStated ==
    \A k \in 1..Len(trace) :
        (\E fs \in trace[k].sizes :
            fs > inst[self].dominant_font_size + font_size_difference_from_dominant)
            => trace[k].outcome = "candidate"

\* C5, amended: a line that is not empty, not noise and not over the word
\* limit, and whose FIRST span's rounded size exceeds the dominant size by
\* more than the threshold, is classified as a heading whatever the other
\* rules say; it is in the page's candidate list unless it is the title on a
\* page after the first, is cut by the file03 filter, or repeats the text
\* and level of an earlier candidate of the page.
C5_Rule1FirstSpan ==
    \A k \in 1..Len(trace) :
        (Classifiable(k) /\ FirstSpanLarge(k)) =>
            /\ trace[k].classified
            /\ \/ trace[k].outcome = "candidate"
               \/ /\ trace[k].outcome = "title"
                  /\ trace[k].text = extracted_outline.title
                  /\ trace[k].page_idx > 0
               \/ /\ trace[k].outcome = "file03"
                  /\ File03Skipped(doc.path, trace[k].page_idx, trace[k].text)
               \/ /\ trace[k].outcome = "duplicate"
                  /\ \E j \in 1..(k - 1) :
                        /\ trace[j].outcome = "candidate"
                        /\ trace[j].text = trace[k].text
                        /\ trace[j].level = trace[k].level

\* A walked page with a line that only rule 1 accepts (its first span is
\* large, it is not bold, not numbered, and ends with a full stop) and that
\* is in the candidate list.
C5_Witness ==
    \E k \in 1..Len(trace) :
        /\ FirstSpanLarge(k)
        /\ trace[k].outcome = "candidate"
        /\ EndsWith(trace[k].text, ".")
        /\ ~MatchNumbered(trace[k].text)
        /\ \E i \in 1..Len(temp_page_candidates) :
              temp_page_candidates[i].text = trace[k].text

\* C6, as stated: for every document, the outline the module-scoped
\* extractor of the test suite returns, after whatever documents it has
\* extracted before, is the outline a newly constructed extractor returns
\* for the same document under the same configuration.
C6_AsStated ==
    (pc = "done" /\ self = "fresh") => extracted_outline = got

\* Whether the two interpreters have given one order to every set of title
\* candidates both have sorted.
SameSeedSoFar ==
    \A a \in set_order["fixture"] : \A b \in set_order["fresh"] :
        a.cands = b.cands => a.order = b.order

\* With one order in both interpreters (one hash seed), the two outlines of
\* a file are the same: the dedup set, the dominant size and the ladder of
\* an earlier document leave no trace.
SameAsFreshUnderOneSeed ==
    (pc = "done" /\ self = "fresh" /\ SameSeedSoFar) => extracted_outline = got

\* Whether the parser's failure is met by a call that runs to its end.
FaultMet ==
    \/ doc.fault.kind \in {"open", "styles", "title"}
    \/ /\ doc.fault.kind = "page"
       /\ ~(OutputPageNum(doc.fault.page, ContentPageOffset(doc.path)) < 1)

\* C7: no failure leaves extract_outline: a call that met a failure ends
\* with an error field that holds the failure's description, and the loop of
\* process_directory calls process_single_pdf exactly once for every file it
\* has passed and never twice for any file.
C7_ErrorRecovery ==
    /\ pc # "crashed"
    /\ (pc = "done" /\ FaultMet) => (HasError /\ extracted_outline.error # "")
    /\ (pc = "done" /\ page_idx < Len(doc.pages)) => HasError
    /\ \A i \in 1..pdf_count :
          /\ attempts[i] <= 1
          /\ (i <= file_idx) => (attempts[i] = 1 /\ returned[i] \in {"ok", "error"})
          /\ (i > file_idx + 1) => attempts[i] = 0

\* A directory of two files, both finished, each called once: the first
\* returned an outline with an error, the second one without.
C7_Witness ==
    /\ pdf_count = 2
    /\ file_idx = 2
    /\ returned[1] = "error"
    /\ returned[2] = "ok"
    /\ attempts[1] = 1
    /\ attempts[2] = 1

\* C8, as stated: an outline with an error field has an empty outline list.
C8_AsStated == HasError => extracted_outline.outline = <<>>

\* C8, amended: the step that records the error adds the error field and
\* nothing else: the entries appended before the failure, and the title,
\* stay as they were.
C8_EntriesRetained ==
    [][(~HasError /\ "error" \in DOMAIN extracted_outline')
          => /\ extracted_outline'.outline = extracted_outline.outline
             /\ extracted_outline'.title = extracted_outline.title]_vars

\* A call that failed on a later page and returned the entries of the pages
\* before it together with the error.
C8_Witness ==
    /\ pc = "done"
    /\ HasError
    /\ extracted_outline.outline # <<>>
    /\ doc.fault.kind = "page"

\* C9: every entry carries the number of the physical page it was found on
\* plus one plus the document's offset (0, or -1 for file03.pdf), and that
\* number is at least 1; no line of a page below logical number 1 is walked,
\* and no dedup key carries a page number below 1.
C9_PageNumbers ==
    /\ Len(origin) = Len(extracted_outline.outline)
    /\ \A i \in 1..Len(extracted_outline.outline) :
          /\ extracted_outline.outline[i].page =
                origin[i].page_idx + 1 + ContentPageOffset(doc.path)
          /\ extracted_outline.outline[i].page >= 1
    /\ \A k \in 1..Len(trace) :
          trace[k].page_idx + 1 + ContentPageOffset(doc.path) >= 1
    /\ \A e \in {"fixture", "fresh"} :
          \A key \in inst[e].processed_headings : key[3] >= 1

\* A finished call on a two-page file03.pdf: the cover page was skipped and
\* the second physical page gave entries numbered 1.
C9_Witness ==
    /\ pc = "done"
    /\ ~HasError
    /\ ContentPageOffset(doc.path) = 0 - 1
    /\ Len(doc.pages) = 2
    /\ extracted_outline.outline # <<>>
    /\ \A i \in 1..Len(extracted_outline.outline) :
          extracted_outline.outline[i].page = 1 /\ origin[i].page_idx = 1

\* The sort key of entry i: its level's rank, then the vertical position it
\* was found at.
EntryKey(i) ==
    [level |-> extracted_outline.outline[i].level, y_pos |-> origin[i].y_pos]

\* C10, as stated: pages never decrease along the outline; the entries of
\* one page are in the order of level rank, then vertical position; and a
\* page with more candidates than the maximum (the configured one, 4 when
\* none is configured) keeps exactly the first maximum-many of its sorted
\* candidates.
C10_AsStated ==
    /\ \A i, j \in 1..Len(extracted_outline.outline) :
          i < j =>
              /\ extracted_outline.outline[i].page <= extracted_outline.outline[j].page
              /\ (extracted_outline.outline[i].page = extracted_outline.outline[j].page)
                    => KeyLeq(EntryKey(i), EntryKey(j))
    /\ (pc \in {"pages", "done"}
          /\ Len(temp_page_candidates) > MaxHeadingsOrDefault(SETTINGS)) =>
          LET n == temp_page_candidates[1].page
              kept == {i \in 1..Len(extracted_outline.outline) :
                          extracted_outline.outline[i].page = n}
          IN  /\ Cardinality(kept) = MaxHeadingsOrDefault(SETTINGS)
              /\ \A c \in 1..Len(temp_page_candidates) :
                    \/ \E i \in kept :
                          extracted_outline.outline[i] = Entry(temp_page_candidates[c])
                    \/ \A i \in kept : KeyLeq(EntryKey(i), temp_page_candidates[c])

\* C11: when the resolved title is not empty, no entry found on a physical
\* page after the first has the title as its text, whether it came from the
\* classifier or from the per-page fallback.
C11_TitleSuppressed ==
    extracted_outline.title # "" =>
        \A i \in 1..Len(extracted_outline.outline) :
            origin[i].page_idx > 0 =>
                extracted_outline.outline[i].text # extracted_outline.title

\* A finished call whose last page, not the first, had a line with the
\* title's text that the classifier accepted and the loop left out, no
\* candidate, and an entry from the fallback search.
C11_Witness ==
    /\ pc = "done"
    /\ ~HasError
    /\ extracted_outline.title # ""
    /\ page_idx >= 2
    /\ temp_page_candidates = <<>>
    /\ \E k \in 1..Len(trace) :
          /\ trace[k].outcome = "title"
          /\ trace[k].text = extracted_outline.title
    /\ \E i \in 1..Len(extracted_outline.outline) : origin[i].page_idx = page_idx - 1

\* The curated entries of physical page p of the document, computed from the
\* page alone: its lines folded from an empty candidate list, then sorted,
\* cut or replaced by the fallback entry.  (A dedup key holds the page
\* number, so the keys of other pages do not matter.)
CuratedEntries(p) ==
    LET n == p + 1 + ContentPageOffset(doc.path)
        page == PageOf(doc.pages[p + 1])
        st == ProcessLines(page.lines,
                  [prev |-> <<>>, cands |-> <<>>, seen |-> {}, trace |-> <<>>],
                  [title |-> extracted_outline.title, path |-> doc.path,
                   page_idx |-> p, page |-> n,
                   dominant |-> inst[self].dominant_font_size,
                   ladder |-> inst[self].font_sizes_by_prominence])
        add == HeadingsToAdd(page, st.cands, SETTINGS, extracted_outline.title,
                             inst[self].dominant_font_size, n)
    IN  IF n < 1 THEN <<>> ELSE [i \in 1..Len(add) |-> Entry(add[i])]

\* The curated entries of the physical pages before page k, in order.
RECURSIVE CuratedBefore(_)
CuratedBefore(k) ==
    IF k = 0 THEN <<>> ELSE CuratedBefore(k - 1) \o CuratedEntries(k - 1)

\* The titles the call can resolve for the document: one for each order the
\* sort of the title candidates can return.
ResolvedTitles ==
    LET pages == LoadPages(doc) IN
    IF SortsCandidates(pages)
    THEN {ResolveTitle(pages, o) : o \in LongestFirst(CandidateSet(FirstPageCandidates(pages)))}
    ELSE {ResolveTitle(pages, <<>>)}

\* Whether the call ended by an exception raised while a page was processed.
FailedOnPage ==
    /\ pc = "done"
    /\ HasError
    /\ doc.fault.kind \notin {"open", "styles", "title"}

\* C12: when an exception is raised while page k is processed, the returned
\* outline is exactly the curated entries of the pages before k, in order,
\* with the resolved title; nothing collected on page k is in it.
C12_PageAtomic ==
    FailedOnPage =>
        /\ extracted_outline.title \in ResolvedTitles
        /\ extracted_outline.outline = CuratedBefore(page_idx)
        /\ Len(origin) = Len(extracted_outline.outline)
        /\ \A i \in 1..Len(origin) : origin[i].page_idx < page_idx

\* A call that failed on its second page after candidates had been collected
\* on it: the first page's entries are returned, the second page's
\* candidates are not.
C12_Witness ==
    /\ FailedOnPage
    /\ page_idx = 1
    /\ temp_page_candidates # <<>>
    /\ extracted_outline.outline # <<>>
    /\ \A c \in 1..Len(temp_page_candidates) :
          /\ temp_page_candidates[c].page = OutputPageNum(page_idx, content_page_offset)
          /\ \A i \in 1..Len(extracted_outline.outline) :
                extracted_outline.outline[i] # Entry(temp_page_candidates[c])

\* The box of the nearest line before line k of the walked page that is not
\* empty; <<>> when there is none.
RECURSIVE NearestNonEmptyBox(_)
NearestNonEmptyBox(k) ==
    IF k <= 1 THEN <<>>
    ELSE IF trace[k - 1].outcome # "empty" THEN trace[k - 1].bbox
    ELSE NearestNonEmptyBox(k - 1)

\* C13, as stated: every line handed to the classifier is compared against
\* the box of the nearest preceding non-empty line of its page (none for the
\* first such line); empty lines do not update the reference.
C13_AsStated ==
    \A k \in 1..Len(trace) :
        Classifiable(k) => trace[k].prev = NearestNonEmptyBox(k)

\* C13, amended: every line of a page is compared against the box of the
\* line right before it on the page (none for the first line), whatever
\* became of that line: an empty line updates the reference as a noise line,
\* an over-long line and every other line do.
C13_PrevIsPrecedingLine ==
    \A k \in 1..Len(trace) :
        trace[k].prev = IF k = 1 THEN <<>> ELSE trace[k - 1].bbox

\* Whether the gap from a box down to line k is more than 1.5 times the
\* dominant size.
GapAbove(k, box) ==
    (trace[k].bbox[2] - box[4]) * 20 > inst[self].dominant_font_size * 3

\* A line handed to the classifier right after an empty line and compared
\* against the empty line's box: the gap from the last non-empty line would
\* have passed the gap test, the gap from the empty line does not, and the
\* line is no heading.
C13_Witness ==
    \E k \in 3..Len(trace) :
        /\ Classifiable(k)
        /\ trace[k - 1].outcome = "empty"
        /\ trace[k - 2].outcome # "empty"
        /\ trace[k].prev = trace[k - 1].bbox
        /\ GapAbove(k, trace[k - 2].bbox)
        /\ ~GapAbove(k, trace[k - 1].bbox)
        /\ trace[k].outcome = "not_heading"

\* Whether the call has resolved the title of a document with a first page
\* on which the two-fragment strategy found nothing and the largest size has
\* a span.
FallbackTitleTried ==
    /\ pc \in {"pages", "done"}
    /\ doc.fault.kind \notin {"open", "styles", "title"}
    /\ Len(doc.pages) >= 1
    /\ PrimaryTitle(PageOf(doc.pages[1])) = ""
    /\ TitleCandidates(LineSpans(PageOf(doc.pages[1]).lines), 0, <<>>) # <<>>

\* The strings the fallback can build from the first page: the distinct
\* candidates joined longest first, equally long ones in any order.
BuiltTitles ==
    {PotentialTitle(o) :
        o \in LongestFirst(CandidateSet(FirstPageCandidates(LoadPages(doc))))}

\* C14, as stated: the built string is rejected exactly when it is shorter
\* than 5 characters or matches a noise pattern; a string of 5 or more
\* characters that matches none becomes the title, unless it is a banner.
C14_AsStated ==
    FallbackTitleTried =>
        \E built \in BuiltTitles :
            extracted_outline.title =
                IF Len(built) >= 5 /\ ~IsNoise(built) /\ ~IsBanner(built)
                THEN built ELSE ""

\* C14, amended: the built string is rejected exactly when it has 5 or fewer
\* characters or matches a noise pattern; a string of more than 5 characters
\* that matches none becomes the title, unless it is a banner.
C14_TitleAcceptance ==
    FallbackTitleTried =>
        \E built \in BuiltTitles :
            extracted_outline.title =
                IF Len(built) > 5 /\ ~IsNoise(built) /\ ~IsBanner(built)
                THEN built ELSE ""

\* A document whose first page gives a string of exactly five characters
\* that matches no noise pattern: the title stays empty.
C14_Witness ==
    /\ FallbackTitleTried
    /\ \A built \in BuiltTitles : Len(built) = 5 /\ ~IsNoise(built)
    /\ extracted_outline.title = ""

\* The entries of the outline that carry page number n, in outline order.
EntriesOf(n) == SelectSeq(extracted_outline.outline, LAMBDA e : e.page = n)

\* C15, as stated: with no max_headings_per_page in the configuration, a
\* page with more than 4 candidates contributes exactly the first 4 of its
\* sorted candidates, and the call goes on without an error field.
C15_AsStated ==
    (/\ "max_headings_per_page" \notin DOMAIN SETTINGS
     /\ pc \in {"pages", "done"}
     /\ doc.fault.kind = "none"
     /\ Len(temp_page_candidates) > DefaultMaxHeadings) =>
        LET sorted == SortCandidates(temp_page_candidates) IN
        /\ ~HasError
        /\ EntriesOf(temp_page_candidates[1].page) =
              [i \in 1..DefaultMaxHeadings |-> Entry(sorted[i])]

\* Whether the page walked last is finished, so that trace and
\* temp_page_candidates are those of physical page page_idx - 1.
LastPageFinished ==
    /\ pc \in {"pages", "done"}
    /\ ~HasError
    /\ page_idx >= 1
    /\ page_idx + ContentPageOffset(doc.path) >= 1

LastPage == PageOf(doc.pages[page_idx])
LastPageNum == page_idx + ContentPageOffset(doc.path)

\* Whether a span qualifies for the fallback, in the claim's words: not
\* empty, no noise, not the title, near the dominant size or bold, and of
\* more than one word or more than three characters that are not all digits.
Qualifies(span) ==
    LET text == Strip(span.text) IN
    /\ text # ""
    /\ ~IsNoise(text)
    /\ text # extracted_outline.title
    /\ \/ FloatGeDiff(Round1(span.size), inst[self].dominant_font_size, 5)
       \/ is_bold(span)
    /\ \/ WordCount(text) > 1
       \/ (Len(text) > 3 /\ ~AllDigits(text))

\* The qualifying spans of the page walked last, as <<line, span>> indexes.
QualifyingSpans ==
    {q \in UNION {{<<k, m>> : m \in 1..Len(LastPage.lines[k].spans)} :
                     k \in 1..Len(LastPage.lines)} :
        Qualifies(LastPage.lines[q[1]].spans[q[2]])}

\* C16: the fallback adds to a page only when the page has no candidate; it
\* adds at most one entry, of level H1 and with the page's logical number,
\* whose text is the stripped text of a qualifying span of the smallest
\* vertical position; no qualifying span, no entry; and the entry's key is
\* not in the dedup set.
C16_FallbackSelection ==
    LastPageFinished =>
        LET es == EntriesOf(LastPageNum) IN
        IF temp_page_candidates # <<>>
        THEN \A i \in 1..Len(es) :
                \E c \in 1..Len(temp_page_candidates) :
                    es[i] = Entry(temp_page_candidates[c])
        ELSE IF QualifyingSpans = {} THEN es = <<>>
        ELSE /\ Len(es) = 1
             /\ es[1].level = "H1"
             /\ es[1].page = LastPageNum
             /\ \E q \in QualifyingSpans :
                   /\ es[1].text = Strip(LastPage.lines[q[1]].spans[q[2]].text)
                   /\ \A r \in QualifyingSpans :
                         LastPage.lines[q[1]].bbox[2] <= LastPage.lines[r[1]].bbox[2]
             /\ <<es[1].text, "H1", LastPageNum>> \notin inst[self].processed_headings

\* A finished page without candidates whose fallback entry is the text of a
\* qualifying span that lies above a qualifying span of an earlier line.
C16_Witness ==
    /\ LastPageFinished
    /\ temp_page_candidates = <<>>
    /\ Len(EntriesOf(LastPageNum)) = 1
    /\ \E q, r \in QualifyingSpans :
          /\ r[1] < q[1]
          /\ LastPage.lines[q[1]].bbox[2] < LastPage.lines[r[1]].bbox[2]
          /\ EntriesOf(LastPageNum)[1].text = Strip(LastPage.lines[q[1]].spans[q[2]].text)

\* Whether the style analysis of the call has run to its end.
StylesProfiled ==
    /\ pc \in {"title", "pages", "done"}
    /\ doc.fault.kind \notin {"open", "styles"}

\* The rounded sizes of the document's spans.
ObservedSizes ==
    LET spans == DocSpans(LoadPages(doc)) IN
    {Round1(spans[i].size) : i \in 1..Len(spans)}

\* C17: after the style analysis the ladder is strictly descending and holds
\* every observed rounded size (and nothing else, when the document has a
\* span); a line that reached level assignment has its first span's size in
\* the ladder, and when neither the numbering branch nor a literal rule
\* decides, its level is H(min(i, 4)) for the 1-based place i of that size,
\* never H_UNKNOWN.
C17_LadderLevel ==
    StylesProfiled =>
        LET ladder == inst[self].font_sizes_by_prominence
            members == {ladder[i] : i \in 1..Len(ladder)}
        IN  /\ \A i, j \in 1..Len(ladder) : i < j => ladder[i] > ladder[j]
            /\ ObservedSizes \subseteq members
            /\ ObservedSizes # {} => members = ObservedSizes
            /\ \A k \in 1..Len(trace) :
                  trace[k].level # "" =>
                      /\ trace[k].first_size \in members
                      /\ (/\ ~IsNumbered(trace[k].text)
                          /\ ~LiteralRuleDecides(trace[k].first_size, trace[k].text,
                                                 inst[self].dominant_font_size)) =>
                            \E i \in 1..Len(ladder) :
                                /\ ladder[i] = trace[k].first_size
                                /\ trace[k].level =
                                      <<"H1", "H2", "H3", "H4">>[IF i < 4 THEN i ELSE 4]

\* A walked page with a line whose level came from the ladder and whose
\* first span's size is fifth in the ladder: its level is H4.
C17_Witness ==
    /\ StylesProfiled
    /\ \E k \in 1..Len(trace) :
          /\ trace[k].outcome = "candidate"
          /\ ~IsNumbered(trace[k].text)
          /\ ~LiteralRuleDecides(trace[k].first_size, trace[k].text,
                                 inst[self].dominant_font_size)
          /\ Len(inst[self].font_sizes_by_prominence) >= 5
          /\ inst[self].font_sizes_by_prominence[5] = trace[k].first_size
          /\ trace[k].level = "H4"

====
